---- MODULE Spec2Model ----
(***************************************************************************)
(* Negocia: the in-memory session store (app/store/session_store.py), the  *)
(* rule-based insight engine (app/engine/insight_engine.py), the webhook   *)
(* router with its session read adapters (app/api/webhook.py) and the      *)
(* insights endpoint (app/api/insights.py).                                *)
(*                                                                         *)
(* Seven specifications share the variables:                               *)
(*   Spec         the store's methods, two tasks interleaved at every      *)
(*                entry to and exit from "async with self._lock";          *)
(*   LiveSpec     the same methods with the wait for the lock as a state   *)
(*                of its own, and fairness;                                *)
(*   DataSpec     the operations of SessionData and the engine applied to  *)
(*                one session filled with one batch;                       *)
(*   AnalysisSpec run_analysis, and engines of other window sizes, on one  *)
(*                session filled with one batch;                           *)
(*   GrowSpec     run_analysis on one session that goes on receiving       *)
(*                batches;                                                 *)
(*   ApiSpec      the two endpoints that return findings, over a store     *)
(*                receiving segments;                                      *)
(*   WebSpec      POST /omi/webhook with its idempotency cache and the     *)
(*                background analyses it schedules.                        *)
(*                                                                         *)
(* Chars gives each string its characters, so that lower(), strip(),       *)
(* split() and the substring test of the engine are computed, not assumed. *)
(* A timestamp is a natural number, a confidence is in hundredths (0.9 is  *)
(* 90), a talk ratio in tenths of a percent.  An optional value is <<>>    *)
(* (None) or <<v>>.                                                        *)
(***************************************************************************)
EXTENDS Integers, Sequences, FiniteSets, TLC

VARIABLES
    sessions,   \* SessionStore._sessions: session_id -> SessionData
    locked,     \* SessionStore._lock: TRUE while some task is inside "async with"
    pc,         \* per task: "idle", "waiting" (at async with self._lock), "cs" (inside
                \* it), "adapter" (back in the handler, holding a SessionData),
                \* "webhook" (a webhook request whose handler has not run yet)
    ref,        \* per task: the session_id of the SessionData get_session returned
    last,       \* the last completed call: name, session_id, return value, lock held
    request,    \* per task: None, or <<key>>, the X-Idempotency-Key (None or <<k>>) of
                \* the webhook request the task handles
    idempotency_cache,  \* webhook._idempotency_cache: key -> WebhookResponse
    background  \* the tasks asyncio.create_task has scheduled, oldest first

vars == <<sessions, locked, pc, ref, last, request, idempotency_cache, background>>

\* the state of the HTTP handlers, which the calls on the store leave alone
handlers == <<request, idempotency_cache, background>>

\* ------------------------------------------------------------- bounds
MaxBatch == 2      \* longest segment list of one add_segments call
MaxHeld == 2       \* most segments held by the store, all sessions together
MaxData == 3       \* longest segment list the data operations are applied to
MaxTasks == 1      \* most scheduled background analyses that have not run yet

Tasks == {"t1", "t2"}
SessionIds == {"s1", "s2"}

None == <<>>
Some(v) == <<v>>

\* ------------------------------------------------------------- text
\* The characters of each string of the model: str is a sequence of characters.
Chars(str) ==
    CASE str = "too expensive" ->
           <<"t", "o", "o", " ", "e", "x", "p", "e", "n", "s", "i", "v", "e">>
      [] str = "Send me a proposal" ->
           <<"S", "e", "n", "d", " ", "m", "e", " ", "a", " ", "p", "r", "o", "p", "o", "s", "a", "l">>
      [] str = "send me a proposal" ->
           <<"s", "e", "n", "d", " ", "m", "e", " ", "a", " ", "p", "r", "o", "p", "o", "s", "a", "l">>
      [] str = "send a proposal" ->
           <<"s", "e", "n", "d", " ", "a", " ", "p", "r", "o", "p", "o", "s", "a", "l">>
      [] str = "competitor" ->
           <<"c", "o", "m", "p", "e", "t", "i", "t", "o", "r">>
      [] str = "book a meeting" ->
           <<"b", "o", "o", "k", " ", "a", " ", "m", "e", "e", "t", "i", "n", "g">>
      [] str = "think about it" ->
           <<"t", "h", "i", "n", "k", " ", "a", "b", "o", "u", "t", " ", "i", "t">>
      [] str = "It is too expensive" ->
           <<"I", "t", " ", "i", "s", " ", "t", "o", "o", " ", "e", "x", "p", "e", "n", "s", "i", "v", "e">>
      [] str = "too expensive but ready to move forward" ->
           <<"t", "o", "o", " ", "e", "x", "p", "e", "n", "s", "i", "v", "e", " ", "b", "u", "t", " ",
             "r", "e", "a", "d", "y", " ", "t", "o", " ", "m", "o", "v", "e", " ", "f", "o", "r", "w", "a", "r", "d">>
      [] str = "ready to move forward" ->
           <<"r", "e", "a", "d", "y", " ", "t", "o", " ", "m", "o", "v", "e", " ", "f", "o", "r", "w", "a", "r", "d">>
      [] str = "move forward" ->
           <<"m", "o", "v", "e", " ", "f", "o", "r", "w", "a", "r", "d">>
      [] str = "hello" ->
           <<"h", "e", "l", "l", "o">>
      [] str = "SPEAKER_01" ->
           <<"S", "P", "E", "A", "K", "E", "R", "_", "0", "1">>
      [] str = "SPEAKER_01 " ->
           <<"S", "P", "E", "A", "K", "E", "R", "_", "0", "1", " ">>
      [] str = "SPEAKER_02" ->
           <<"S", "P", "E", "A", "K", "E", "R", "_", "0", "2">>
      [] str = " " -> <<" ">>
      [] str = "" -> <<>>
      [] str = "UNKNOWN" ->
           <<"U", "N", "K", "N", "O", "W", "N">>

UpperCase == <<"A", "B", "C", "D", "E", "F", "G", "H", "I", "J", "K", "L", "M",
               "N", "O", "P", "Q", "R", "S", "T", "U", "V", "W", "X", "Y", "Z">>
LowerCase == <<"a", "b", "c", "d", "e", "f", "g", "h", "i", "j", "k", "l", "m",
               "n", "o", "p", "q", "r", "s", "t", "u", "v", "w", "x", "y", "z">>

\* str.lower(), on the letters of the modelled texts
lower(str) ==
    LET text == Chars(str) IN
    [i \in 1..Len(text) |->
        IF \E k \in 1..Len(UpperCase) : UpperCase[k] = text[i]
        THEN LowerCase[CHOOSE k \in 1..Len(UpperCase) : UpperCase[k] = text[i]]
        ELSE text[i]]

\* phrase in text, text a character sequence
Contains(text, str) ==
    LET phrase == Chars(str) IN
    \E i \in 1..(Len(text) - Len(phrase) + 1) :
        SubSeq(text, i, i + Len(phrase) - 1) = phrase

\* ------------------------------------------------------------- segments
\* TranscriptSegment(text, speaker, is_user, timestamp)
Segment(text, speaker, is_user, timestamp) ==
    [text |-> text, speaker |-> speaker, is_user |-> is_user, timestamp |-> timestamp]

\* The segments the modelled clients send: one, one with the same text and an
\* earlier timestamp, one with the same timestamp and another text.
Fragments == {
    Segment("too expensive", Some("SPEAKER_01"), FALSE, 2),
    Segment("too expensive", Some("SPEAKER_01"), FALSE, 1),
    Segment("Send me a proposal", None, FALSE, 2) }

\* A segment with the (timestamp, text) of a sent one, another speaker and flag.
Resent == Segment("too expensive", None, TRUE, 2)

RECURSIVE SeqsUpTo(_, _)
SeqsUpTo(S, n) ==
    IF n = 0 THEN {<<>>}
    ELSE LET shorter == SeqsUpTo(S, n - 1)
         IN shorter \cup {Append(s, x) : s \in {q \in shorter : Len(q) = n - 1}, x \in S}

\* OmiWebhookPayload.segments has min_length 1
Batches == {b \in SeqsUpTo(Fragments, MaxBatch) : Len(b) >= 1}

\* the batches the add_segments operators are also tried on
WideBatches == {b \in SeqsUpTo(Fragments \cup {Resent}, MaxBatch) : Len(b) >= 1}

\* The segments the data operations are applied to: the ones above, one with
\* the phrase and timestamp of the first in another text, one that holds three
\* phrases of the catalog, one that holds none.
DataFragments == Fragments \cup {
    Segment("It is too expensive", Some("SPEAKER_02"), TRUE, 2),
    Segment("too expensive but ready to move forward", Some(" "), FALSE, 1),
    Segment("hello", Some("SPEAKER_01 "), FALSE, 3) }

DataBatches == {b \in SeqsUpTo(DataFragments, MaxData) : Len(b) >= 1}

\* ------------------------------------------------------------- rules
Rule(type, phrase, confidence, suggestion) ==
    [type |-> type, phrase |-> phrase, confidence |-> confidence, suggestion |-> suggestion]

\* _RULE_MAP flattened in its iteration order, restricted to eight rules, one to
\* four of each category (no other rule of the catalog matches a modelled text;
\* the dash of the last suggestion is written in ASCII).
Rules == <<
    Rule("pricing_objection", "too expensive", 90,
         "Acknowledge the concern, then pivot to ROI and value delivered."),
    Rule("buying_signal", "send me a proposal", 95,
         "Prepare and send the proposal within 24 hours. Strike while interest is hot."),
    Rule("buying_signal", "send a proposal", 95,
         "Prepare and send the proposal within 24 hours. Strike while interest is hot."),
    Rule("buying_signal", "ready to move forward", 95,
         "Confirm the scope and timeline, then initiate onboarding steps."),
    Rule("buying_signal", "move forward", 90,
         "Clarify the next step - contract review, pilot, or sign-off."),
    Rule("competitor_mention", "competitor", 80,
         "Ask what they like about the competitor, then differentiate on your strengths."),
    Rule("next_step", "book a meeting", 90,
         "Send a calendar invite before they leave the call."),
    Rule("stall_tactic", "think about it", 65,
         "Ask what specific concerns remain - try to address them now.") >>

\* InsightEngine(window_size=0), the module-level singleton
WindowSize == 0

\* ------------------------------------------------------------- engine
Insight(type, rule, segment) ==
    [type |-> type, confidence |-> rule.confidence, matched_text |-> segment.text,
     matched_phrase |-> rule.phrase, speaker |-> segment.speaker,
     timestamp |-> Some(segment.timestamp), suggestion |-> rule.suggestion]

\* variant: the dedup key is (type, phrase), without the timestamp
RECURSIVE ScanRules_key_without_timestamp(_, _, _, _)
ScanRules_key_without_timestamp(segment, text_lower, j, acc) ==
    IF j > Len(Rules) THEN acc
    ELSE LET rule == Rules[j]
             dedup_key == <<rule.type, rule.phrase>>
         IN IF Contains(text_lower, rule.phrase) /\ dedup_key \notin acc.seen
            THEN ScanRules_key_without_timestamp(segment, text_lower, j + 1,
                    [insights |-> Append(acc.insights, Insight(rule.type, rule, segment)),
                     seen |-> acc.seen \cup {dedup_key}])
            ELSE ScanRules_key_without_timestamp(segment, text_lower, j + 1, acc)

\* the inner loops of analyze_segments for one segment: acc is [insights, seen]
RECURSIVE ScanRules(_, _, _, _)
ScanRules(segment, text_lower, j, acc) ==
    IF j > Len(Rules) THEN acc
    ELSE LET rule == Rules[j]
             dedup_key == <<rule.type, rule.phrase, segment.timestamp>>
         IN IF Contains(text_lower, rule.phrase) /\ dedup_key \notin acc.seen
            THEN ScanRules(segment, text_lower, j + 1,
                    [insights |-> Append(acc.insights, Insight(rule.type, rule, segment)),
                     seen |-> acc.seen \cup {dedup_key}])
            ELSE ScanRules(segment, text_lower, j + 1, acc)

\* variant: the phrases are looked for in the text as it is, not lowercased
RECURSIVE ScanSegments_case_sensitive(_, _, _)
ScanSegments_case_sensitive(target_segments, i, acc) ==
    IF i > Len(target_segments) THEN acc
    ELSE ScanSegments_case_sensitive(target_segments, i + 1,
            ScanRules(target_segments[i], Chars(target_segments[i].text), 1, acc))

\* the loop over the segments
RECURSIVE ScanSegments(_, _, _)
ScanSegments(target_segments, i, acc) ==
    IF i > Len(target_segments) THEN acc
    ELSE ScanSegments(target_segments, i + 1, ScanRules(target_segments[i], lower(target_segments[i].text), 1, acc))

\* variant: the confidence is not negated in the sort key
SortKey_confidence_ascending(i) ==
    <<IF i.timestamp = None THEN 0 ELSE i.timestamp[1], i.confidence>>

\* the sort key (i.timestamp or 0, -i.confidence)
SortKey(i) == <<IF i.timestamp = None THEN 0 ELSE i.timestamp[1], 0 - i.confidence>>
KeyLeq(a, b) == a[1] < b[1] \/ (a[1] = b[1] /\ a[2] <= b[2])

\* list.sort(key=...): stable
RECURSIVE SortInsights(_)
SortInsights(s) ==
    IF s = <<>> THEN <<>>
    ELSE LET init == SortInsights(SubSeq(s, 1, Len(s) - 1))
             x == s[Len(s)]
             k == Cardinality({n \in 1..Len(init) : KeyLeq(SortKey(init[n]), SortKey(x))})
         IN SubSeq(init, 1, k) \o <<x>> \o SubSeq(init, k + 1, Len(init))

\* variant: every category has an entry, those without a finding with count 0
TypeCounts_every_type(insights) ==
    [c \in {"pricing_objection", "buying_signal", "competitor_mention",
            "next_step", "stall_tactic"} |->
        Cardinality({n \in 1..Len(insights) : insights[n].type = c})]

\* dict(Counter(i.type.value for i in insights))
TypeCounts(insights) ==
    [c \in {insights[n].type : n \in 1..Len(insights)} |->
        Cardinality({n \in 1..Len(insights) : insights[n].type = c})]

\* variant: the window is taken from the front of the list
analyze_segments_first_k(segments, session_id, window_size) ==
    LET target_segments ==
            IF window_size > 0 /\ Len(segments) > window_size
            THEN SubSeq(segments, 1, window_size)
            ELSE segments
        insights == SortInsights(ScanSegments(target_segments, 1,
                                              [insights |-> <<>>, seen |-> {}]).insights)
    IN [session_id |-> session_id, insights |-> insights,
        total_insights |-> Len(insights), summary |-> TypeCounts(insights)]

analyze_segments(segments, session_id, window_size) ==
    LET target_segments ==
            IF window_size > 0 /\ Len(segments) > window_size
            THEN SubSeq(segments, Len(segments) - window_size + 1, Len(segments))
            ELSE segments
        insights == SortInsights(ScanSegments(target_segments, 1,
                                              [insights |-> <<>>, seen |-> {}]).insights)
    IN [session_id |-> session_id, insights |-> insights,
        total_insights |-> Len(insights), summary |-> TypeCounts(insights)]

\* ------------------------------------------------------------- SessionData
SessionData(session_id) ==
    [session_id |-> session_id, segments |-> <<>>, segment_count |-> 0,
     latest_insights |-> None]

SegKey(s) == <<s.timestamp, s.text>>

\* Variants of add_segments with one slip each; the properties below tell them
\* from the code.
\* the batch is appended without the filter on existing_keys
add_segments_unfiltered(session, new_segments) ==
    [session |-> [session EXCEPT !.segments = session.segments \o new_segments,
                                 !.segment_count = session.segment_count + Len(new_segments)],
     ret |-> Len(new_segments)]

\* the filter compares whole segments, not (timestamp, text)
add_segments_whole_segment(session, new_segments) ==
    LET existing == {session.segments[n] : n \in 1..Len(session.segments)}
        unique == SelectSeq(new_segments, LAMBDA s : s \notin existing)
    IN [session |-> [session EXCEPT !.segments = session.segments \o unique,
                                    !.segment_count = session.segment_count + Len(unique)],
        ret |-> Len(unique)]

\* segment_count grows by len(new_segments), not len(unique)
add_segments_counts_batch(session, new_segments) ==
    LET existing_keys == {<<session.segments[n].timestamp, session.segments[n].text>> :
                             n \in 1..Len(session.segments)}
        unique == SelectSeq(new_segments, LAMBDA s : <<s.timestamp, s.text>> \notin existing_keys)
    IN [session |-> [session EXCEPT !.segments = session.segments \o unique,
                                    !.segment_count = session.segment_count + Len(new_segments)],
        ret |-> Len(unique)]

\* new segments drop the cached insights
add_segments_invalidates(session, new_segments) ==
    LET existing_keys == {<<session.segments[n].timestamp, session.segments[n].text>> :
                             n \in 1..Len(session.segments)}
        unique == SelectSeq(new_segments, LAMBDA s : <<s.timestamp, s.text>> \notin existing_keys)
    IN [session |-> [session EXCEPT !.segments = session.segments \o unique,
                                    !.segment_count = session.segment_count + Len(unique),
                                    !.latest_insights =
                                        IF unique = <<>> THEN session.latest_insights ELSE <<>>],
        ret |-> Len(unique)]

\* variant: the new segments are put before the ones held
add_segments_prepends(session, new_segments) ==
    LET existing_keys == {SegKey(session.segments[n]) : n \in 1..Len(session.segments)}
        unique == SelectSeq(new_segments, LAMBDA s : SegKey(s) \notin existing_keys)
    IN [session |-> [session EXCEPT !.segments = unique \o session.segments,
                                    !.segment_count = session.segment_count + Len(unique)],
        ret |-> Len(unique)]

\* SessionData.add_segments: the session after the call and the value returned
SessionData_add_segments(session, new_segments) ==
    LET existing_keys == {SegKey(session.segments[n]) : n \in 1..Len(session.segments)}
        unique == SelectSeq(new_segments, LAMBDA s : SegKey(s) \notin existing_keys)
    IN [session |-> [session EXCEPT !.segments = session.segments \o unique,
                                    !.segment_count = session.segment_count + Len(unique)],
        ret |-> Len(unique)]

\* variant: a segment is put before the ones of equal timestamp
RECURSIVE SortedByTimestamp_ties_reversed(_)
SortedByTimestamp_ties_reversed(s) ==
    IF s = <<>> THEN <<>>
    ELSE LET init == SortedByTimestamp_ties_reversed(SubSeq(s, 1, Len(s) - 1))
             x == s[Len(s)]
             k == Cardinality({n \in 1..Len(init) : init[n].timestamp < x.timestamp})
         IN SubSeq(init, 1, k) \o <<x>> \o SubSeq(init, k + 1, Len(init))

\* sorted(self.segments, key=lambda s: s.timestamp): stable
RECURSIVE SortedByTimestamp(_)
SortedByTimestamp(s) ==
    IF s = <<>> THEN <<>>
    ELSE LET init == SortedByTimestamp(SubSeq(s, 1, Len(s) - 1))
             x == s[Len(s)]
             k == Cardinality({n \in 1..Len(init) : init[n].timestamp <= x.timestamp})
         IN SubSeq(init, 1, k) \o <<x>> \o SubSeq(init, k + 1, Len(init))

ordered_segments(session) == SortedByTimestamp(session.segments)

\* str.strip() and len(str.split()), on character sequences; the one
\* whitespace character of the modelled texts is the space
Whitespace == {" "}

strip(text) ==
    LET ink == {i \in 1..Len(text) : text[i] \notin Whitespace}
    IN IF ink = {} THEN <<>>
       ELSE SubSeq(text, CHOOSE i \in ink : \A j \in ink : i <= j,
                         CHOOSE i \in ink : \A j \in ink : i >= j)

WordCount(text) ==
    Cardinality({i \in 1..Len(text) :
                    /\ text[i] \notin Whitespace
                    /\ (i = 1 \/ text[i - 1] \in Whitespace)})

_UNKNOWN_SPEAKER == Chars("UNKNOWN")

\* the label is a character sequence
_speaker_label(segment) ==
    IF segment.speaker # None /\ segment.speaker[1] # ""
    THEN strip(Chars(segment.speaker[1]))
    ELSE _UNKNOWN_SPEAKER

\* round(n / d, 0) for naturals n and d > 0: to the nearest integer, a tie to
\* the even one (what round() does on a float that is exactly a tie; with at
\* most 31 words in all, a tie has 16 words in all and is exact in binary)
RoundHalfEven(n, d) ==
    LET q == n \div d
        r == n % d
    IN IF 2 * r > d \/ (2 * r = d /\ q % 2 = 1) THEN q + 1 ELSE q

\* SpeakerStats; talk_ratio is in tenths of a percent (33.3 is 333)
SpeakerStats(speaker, segment_count, word_count, talk_ratio) ==
    [speaker |-> speaker, segment_count |-> segment_count,
     word_count |-> word_count, talk_ratio |-> talk_ratio]

\* the keys of speaker_words in insertion order
RECURSIVE SpeakerOrder(_)
SpeakerOrder(segments) ==
    IF segments = <<>> THEN <<>>
    ELSE LET init == SpeakerOrder(SubSeq(segments, 1, Len(segments) - 1))
             label == _speaker_label(segments[Len(segments)])
         IN IF \E n \in 1..Len(init) : init[n] = label THEN init ELSE Append(init, label)

RECURSIVE SumWords(_, _)
SumWords(segments, idx) ==
    IF idx = {} THEN 0
    ELSE LET n == CHOOSE x \in idx : TRUE
         IN WordCount(Chars(segments[n].text)) + SumWords(segments, idx \ {n})

\* variant: the fraction is rounded to one decimal before it is scaled
get_speaker_stats_rounds_fraction(session) ==
    LET segments == session.segments
        Of(label) == {n \in 1..Len(segments) : _speaker_label(segments[n]) = label}
        sum == SumWords(segments, 1..Len(segments))
        total_words == IF sum = 0 THEN 1 ELSE sum
        speakers == SpeakerOrder(segments)
    IN [k \in 1..Len(speakers) |->
           SpeakerStats(speakers[k], Cardinality(Of(speakers[k])),
                        SumWords(segments, Of(speakers[k])),
                        RoundHalfEven(SumWords(segments, Of(speakers[k])) * 10,
                                      total_words) * 100)]

get_speaker_stats(session) ==
    LET segments == session.segments
        Of(label) == {n \in 1..Len(segments) : _speaker_label(segments[n]) = label}
        sum == SumWords(segments, 1..Len(segments))
        total_words == IF sum = 0 THEN 1 ELSE sum
        speakers == SpeakerOrder(segments)
    IN [k \in 1..Len(speakers) |->
           SpeakerStats(speakers[k], Cardinality(Of(speakers[k])),
                        SumWords(segments, Of(speakers[k])),
                        RoundHalfEven(SumWords(segments, Of(speakers[k])) * 1000,
                                      total_words))]

\* FormattedTranscript.lines; plain_text, the same lines as one string, is
\* left out
get_formatted_transcript(session) ==
    LET ordered == ordered_segments(session)
    IN [session_id |-> session.session_id,
        lines |-> [n \in 1..Len(ordered) |->
                      [speaker |-> _speaker_label(ordered[n]),
                       text |-> ordered[n].text,
                       timestamp |-> ordered[n].timestamp,
                       is_user |-> ordered[n].is_user]]]

\* variant: last minus first in storage order
duration_storage_order(session) ==
    IF Len(session.segments) < 2 THEN None
    ELSE Some(session.segments[Len(session.segments)].timestamp
              - session.segments[1].timestamp)

duration(session) ==
    IF Len(session.segments) < 2 THEN None
    ELSE LET ordered == ordered_segments(session)
         IN Some(ordered[Len(ordered)].timestamp - ordered[1].timestamp)

\* SessionSummary
get_summary(session) ==
    [session_id |-> session.session_id,
     total_segments |-> session.segment_count,
     total_words |-> SumWords(session.segments, 1..Len(session.segments)),
     speakers |-> get_speaker_stats(session),
     duration_seconds |-> duration(session)]

to_dict(session) ==
    [session_id |-> session.session_id, segment_count |-> session.segment_count,
     segments |-> session.segments]

\* ------------------------------------------------------------- SessionStore
\* Each method body, between taking and releasing the lock: the session map
\* after the call and the value returned.
\* variant: the SessionData is constructed on every call
add_segments_always_creates(ss, session_id, segments) ==
    LET created == [id \in DOMAIN ss \cup {session_id} |->
                       IF id = session_id THEN SessionData(session_id) ELSE ss[id]]
        r == SessionData_add_segments(created[session_id], segments)
    IN [sessions |-> [created EXCEPT ![session_id] = r.session], ret |-> r.ret]

\* variant: the sessions hold one segment list between them (a mutable
\* default in place of default_factory=list)
add_segments_shared_list(ss, session_id, segments) ==
    LET created == IF session_id \notin DOMAIN ss
                   THEN ss @@ (session_id :> SessionData(session_id))
                   ELSE ss
        r == SessionData_add_segments(created[session_id], segments)
    IN [sessions |-> [id \in DOMAIN created |->
                         IF id = session_id THEN r.session
                         ELSE [created[id] EXCEPT !.segments = r.session.segments]],
        ret |-> r.ret]

SessionStore_add_segments(ss, session_id, segments) ==
    LET created == IF session_id \notin DOMAIN ss
                   THEN ss @@ (session_id :> SessionData(session_id))
                   ELSE ss
        r == SessionData_add_segments(created[session_id], segments)
    IN [sessions |-> [created EXCEPT ![session_id] = r.session], ret |-> r.ret]

\* variant: the lookup inserts a default (setdefault instead of get)
get_session_setdefault(ss, session_id) ==
    [sessions |-> IF session_id \in DOMAIN ss THEN ss
                  ELSE ss @@ (session_id :> SessionData(session_id)),
     ret |-> IF session_id \in DOMAIN ss THEN Some(session_id) ELSE None]

SessionStore_get_session(ss, session_id) ==
    [sessions |-> ss,
     ret |-> IF session_id \in DOMAIN ss THEN Some(session_id) ELSE None]

\* variant: the findings are added to the ones already stored
run_analysis_extends_cached(ss, session_id) ==
    IF session_id \notin DOMAIN ss
    THEN [sessions |-> ss, ret |-> None]
    ELSE LET fresh == analyze_segments(ordered_segments(ss[session_id]),
                                       session_id, WindowSize)
             stored == IF ss[session_id].latest_insights = None THEN <<>>
                       ELSE ss[session_id].latest_insights[1].insights
             insights == stored \o fresh.insights
             result == [session_id |-> session_id, insights |-> insights,
                        total_insights |-> Len(insights), summary |-> TypeCounts(insights)]
         IN [sessions |-> [ss EXCEPT ![session_id].latest_insights = Some(result)],
             ret |-> Some(result)]

\* variant: the result is returned and not stored
run_analysis_not_cached(ss, session_id) ==
    IF session_id \notin DOMAIN ss
    THEN [sessions |-> ss, ret |-> None]
    ELSE [sessions |-> ss,
          ret |-> Some(analyze_segments(ordered_segments(ss[session_id]),
                                        session_id, WindowSize))]

SessionStore_run_analysis(ss, session_id) ==
    IF session_id \notin DOMAIN ss
    THEN [sessions |-> ss, ret |-> None]
    ELSE LET result == analyze_segments(ordered_segments(ss[session_id]),
                                        session_id, WindowSize)
         IN [sessions |-> [ss EXCEPT ![session_id].latest_insights = Some(result)],
             ret |-> Some(result)]

SessionStore_get_insights(ss, session_id) ==
    [sessions |-> ss,
     ret |-> IF session_id \notin DOMAIN ss THEN None ELSE ss[session_id].latest_insights]

SessionStore_list_sessions(ss) == DOMAIN ss

RECURSIVE SumCounts(_, _)
SumCounts(ss, ids) ==
    IF ids = {} THEN 0
    ELSE LET id == CHOOSE x \in ids : TRUE
         IN ss[id].segment_count + SumCounts(ss, ids \ {id})

SessionStore_get_stats(ss) ==
    [active_sessions |-> Cardinality(DOMAIN ss),
     total_segments |-> SumCounts(ss, DOMAIN ss)]

RECURSIVE TotalHeld(_, _)
TotalHeld(ss, ids) ==
    IF ids = {} THEN 0
    ELSE LET id == CHOOSE x \in ids : TRUE
         IN Len(ss[id].segments) + TotalHeld(ss, ids \ {id})

\* ------------------------------------------------------------- actions
Call(name, session_id, ret, held) ==
    [name |-> name, sid |-> session_id, ret |-> ret, held |-> held]

Init ==
    /\ sessions = <<>>
    /\ locked = FALSE
    /\ pc = [t \in Tasks |-> "idle"]
    /\ ref = [t \in Tasks |-> None]
    /\ last = Call("none", None, None, TRUE)
    /\ request = [t \in Tasks |-> None]
    /\ idempotency_cache = <<>>
    /\ background = <<>>

\* variant: the lock is entered without waiting for it
Acquire_no_wait(t) ==
    /\ pc[t] = "idle"
    /\ locked' = TRUE
    /\ pc' = [pc EXCEPT ![t] = "cs"]
    /\ UNCHANGED <<sessions, ref, last>>
    /\ UNCHANGED handlers

\* async with self._lock: entered only while the lock is free
Acquire(t) ==
    /\ pc[t] = "idle"
    /\ ~locked
    /\ locked' = TRUE
    /\ pc' = [pc EXCEPT ![t] = "cs"]
    /\ UNCHANGED <<sessions, ref, last>>
    /\ UNCHANGED handlers

\* leaving "async with": the lock is released and the method returns
Return(t, name, session_id, r) ==
    /\ sessions' = r.sessions
    /\ locked' = FALSE
    /\ last' = Call(name, Some(session_id), r.ret, pc[t] = "cs")

AddSegments(t) ==
    /\ pc[t] = "cs"
    /\ \E session_id \in SessionIds, segments \in Batches :
        LET r == SessionStore_add_segments(sessions, session_id, segments)
        IN /\ TotalHeld(r.sessions, DOMAIN r.sessions) <= MaxHeld
           /\ Return(t, "add_segments", session_id, r)
    /\ pc' = [pc EXCEPT ![t] = "idle"]
    /\ UNCHANGED ref
    /\ UNCHANGED handlers

GetSession(t) ==
    /\ pc[t] = "cs"
    /\ \E session_id \in SessionIds :
        LET r == SessionStore_get_session(sessions, session_id)
        IN /\ Return(t, "get_session", session_id, r)
           /\ pc' = [pc EXCEPT ![t] = IF r.ret = None THEN "idle" ELSE "adapter"]
           /\ ref' = [ref EXCEPT ![t] = r.ret]
    /\ UNCHANGED handlers

RunAnalysis(t) ==
    /\ pc[t] = "cs"
    /\ \E session_id \in SessionIds :
        Return(t, "run_analysis", session_id,
               SessionStore_run_analysis(sessions, session_id))
    /\ pc' = [pc EXCEPT ![t] = "idle"]
    /\ UNCHANGED ref
    /\ UNCHANGED handlers

GetInsights(t) ==
    /\ pc[t] = "cs"
    /\ \E session_id \in SessionIds :
        Return(t, "get_insights", session_id,
               SessionStore_get_insights(sessions, session_id))
    /\ pc' = [pc EXCEPT ![t] = "idle"]
    /\ UNCHANGED ref
    /\ UNCHANGED handlers

ListSessions(t) ==
    /\ pc[t] = "cs"
    /\ locked' = FALSE
    /\ last' = Call("list_sessions", None, SessionStore_list_sessions(sessions), pc[t] = "cs")
    /\ pc' = [pc EXCEPT ![t] = "idle"]
    /\ UNCHANGED <<sessions, ref>>
    /\ UNCHANGED handlers

GetStats(t) ==
    /\ pc[t] = "cs"
    /\ locked' = FALSE
    /\ last' = Call("get_stats", None, SessionStore_get_stats(sessions), pc[t] = "cs")
    /\ pc' = [pc EXCEPT ![t] = "idle"]
    /\ UNCHANGED <<sessions, ref>>
    /\ UNCHANGED handlers

\* GET /omi/sessions/{session_id}: session.to_dict() on the SessionData that
\* _get_session_or_404 returned, after get_session has released the lock
ToDict(t) ==
    /\ pc[t] = "adapter"
    /\ last' = Call("to_dict", ref[t], to_dict(sessions[ref[t][1]]), pc[t] = "cs")
    /\ pc' = [pc EXCEPT ![t] = "idle"]
    /\ ref' = [ref EXCEPT ![t] = None]
    /\ UNCHANGED <<sessions, locked>>
    /\ UNCHANGED handlers

Next ==
    \E t \in Tasks :
        \/ Acquire(t)
        \/ AddSegments(t)
        \/ GetSession(t)
        \/ RunAnalysis(t)
        \/ GetInsights(t)
        \/ ListSessions(t)
        \/ GetStats(t)
        \/ ToDict(t)

Spec == Init /\ [][Next]_vars

\* ------------------------------------------------------------- waiting for the lock
\* a task calls a method of the store: it is at "async with self._lock"
Begin(t) ==
    /\ pc[t] = "idle"
    /\ pc' = [pc EXCEPT ![t] = "waiting"]
    /\ UNCHANGED <<sessions, locked, ref, last, handlers>>

\* Lock.acquire returns: the lock was free, or was released and this task woken
Enter(t) ==
    /\ pc[t] = "waiting"
    /\ ~locked
    /\ locked' = TRUE
    /\ pc' = [pc EXCEPT ![t] = "cs"]
    /\ UNCHANGED <<sessions, ref, last, handlers>>

\* variant: the method returns without releasing the lock
Exit_lock_kept(t, name, session_id, ss) ==
    /\ sessions' = ss
    /\ locked' = TRUE
    /\ pc' = [pc EXCEPT ![t] = "idle"]
    /\ last' = Call(name, session_id, None, TRUE)
    /\ UNCHANGED <<ref, handlers>>

\* the end of "async with self._lock": the section has left the store as ss,
\* the lock is released and the method returns to its caller (what it returns
\* plays no part in who gets the lock, and is not recorded here)
Exit(t, name, session_id, ss) ==
    /\ sessions' = ss
    /\ locked' = FALSE
    /\ pc' = [pc EXCEPT ![t] = "idle"]
    /\ last' = Call(name, session_id, None, TRUE)
    /\ UNCHANGED <<ref, handlers>>

Locked_add_segments(t) ==
    /\ pc[t] = "cs"
    /\ \E session_id \in SessionIds, segments \in Batches :
        LET r == SessionStore_add_segments(sessions, session_id, segments)
        IN /\ TotalHeld(r.sessions, DOMAIN r.sessions) <= MaxHeld
           /\ Exit(t, "add_segments", Some(session_id), r.sessions)

Locked_get_session(t) ==
    /\ pc[t] = "cs"
    /\ \E session_id \in SessionIds :
        Exit(t, "get_session", Some(session_id),
             SessionStore_get_session(sessions, session_id).sessions)

Locked_run_analysis(t) ==
    /\ pc[t] = "cs"
    /\ \E session_id \in SessionIds :
        Exit(t, "run_analysis", Some(session_id),
             SessionStore_run_analysis(sessions, session_id).sessions)

Locked_get_insights(t) ==
    /\ pc[t] = "cs"
    /\ \E session_id \in SessionIds :
        Exit(t, "get_insights", Some(session_id),
             SessionStore_get_insights(sessions, session_id).sessions)

Locked_list_sessions(t) ==
    /\ pc[t] = "cs"
    /\ Exit(t, "list_sessions", None, sessions)

Locked_get_stats(t) ==
    /\ pc[t] = "cs"
    /\ Exit(t, "get_stats", None, sessions)

\* the section of the method that was called
Section(t) ==
    \/ Locked_add_segments(t)
    \/ Locked_get_session(t)
    \/ Locked_run_analysis(t)
    \/ Locked_get_insights(t)
    \/ Locked_list_sessions(t)
    \/ Locked_get_stats(t)

LiveNext ==
    \E t \in Tasks :
        \/ Begin(t)
        \/ Enter(t)
        \/ Locked_add_segments(t)
        \/ Locked_get_session(t)
        \/ Locked_run_analysis(t)
        \/ Locked_get_insights(t)
        \/ Locked_list_sessions(t)
        \/ Locked_get_stats(t)

\* task t leaves its section: within LiveNext the steps that do this are
\* exactly the steps of Section(t), which C25 shows is enabled whenever t is
\* inside, so fairness for this move of pc is fairness for Section(t)
Leave(t) ==
    /\ pc[t] = "cs"
    /\ pc' = [pc EXCEPT ![t] = "idle"]

\* The store with the wait for the lock made a state of its own.  A section
\* has no await, so a task inside runs on until it leaves (weak fairness);
\* asyncio.Lock wakes its waiters first come first served, so a task that can
\* enter again and again does enter (strong fairness).
LiveSpec ==
    /\ Init
    /\ [][LiveNext]_vars
    /\ \A t \in Tasks : SF_pc(Enter(t)) /\ WF_pc(Leave(t))

\* ------------------------------------------------------------- insights API
\* The insight categories (InsightType) and the query values the modelled
\* clients send: min_confidence is 0 (the default), 92 or 95 hundredths.
InsightTypes == {"pricing_objection", "buying_signal", "competitor_mention",
                 "next_step", "stall_tactic"}
TypeQueries == {None, Some("pricing_objection"), Some("buying_signal")}
MinConfidenceQueries == {0, 92, 95}

HttpResponse(status, body) == [status |-> status, body |-> body]

\* variant: the summary of the stored SessionInsights is passed on
api_get_insights_stored_summary(ss, session_id, type, min_confidence) ==
    IF SessionStore_get_session(ss, session_id).ret = None
    THEN [sessions |-> ss, ret |-> HttpResponse(404, None)]
    ELSE LET cached == SessionStore_get_insights(ss, session_id)
             r == IF cached.ret = None
                  THEN SessionStore_run_analysis(cached.sessions, session_id)
                  ELSE cached
             insights == r.ret[1]
             by_type == IF type # None
                        THEN SelectSeq(insights.insights, LAMBDA i : i.type = type[1])
                        ELSE insights.insights
             filtered == IF min_confidence > 0
                         THEN SelectSeq(by_type, LAMBDA i : i.confidence >= min_confidence)
                         ELSE by_type
         IN [sessions |-> r.sessions,
             ret |-> HttpResponse(200, Some([session_id |-> session_id,
                                             insights |-> filtered,
                                             total_insights |-> Len(filtered),
                                             summary |-> insights.summary]))]

\* variant: the analysis is run on every request
api_get_insights_reanalyzes(ss, session_id, type, min_confidence) ==
    IF SessionStore_get_session(ss, session_id).ret = None
    THEN [sessions |-> ss, ret |-> HttpResponse(404, None)]
    ELSE LET r == SessionStore_run_analysis(ss, session_id)
             insights == r.ret[1]
             by_type == IF type # None
                        THEN SelectSeq(insights.insights, LAMBDA i : i.type = type[1])
                        ELSE insights.insights
             filtered == IF min_confidence > 0
                         THEN SelectSeq(by_type, LAMBDA i : i.confidence >= min_confidence)
                         ELSE by_type
         IN [sessions |-> r.sessions,
             ret |-> HttpResponse(200, Some([session_id |-> session_id,
                                             insights |-> filtered,
                                             total_insights |-> Len(filtered),
                                             summary |-> TypeCounts(filtered)]))]

\* GET /insights/{session_id}: the session map after the request and the
\* response; each await on the store takes the free lock and returns
api_get_insights(ss, session_id, type, min_confidence) ==
    IF SessionStore_get_session(ss, session_id).ret = None
    THEN [sessions |-> ss, ret |-> HttpResponse(404, None)]
    ELSE LET cached == SessionStore_get_insights(ss, session_id)
             r == IF cached.ret = None
                  THEN SessionStore_run_analysis(cached.sessions, session_id)
                  ELSE cached
             insights == r.ret[1]
             by_type == IF type # None
                        THEN SelectSeq(insights.insights, LAMBDA i : i.type = type[1])
                        ELSE insights.insights
             filtered == IF min_confidence > 0
                         THEN SelectSeq(by_type, LAMBDA i : i.confidence >= min_confidence)
                         ELSE by_type
         IN [sessions |-> r.sessions,
             ret |-> HttpResponse(200, Some([session_id |-> session_id,
                                             insights |-> filtered,
                                             total_insights |-> Len(filtered),
                                             summary |-> TypeCounts(filtered)]))]

\* a completed HTTP request: the handler, its arguments and its response
Request(name, session_id, args, ret) ==
    [name |-> name, sid |-> session_id, args |-> args, ret |-> ret, held |-> TRUE]

\* await session_store.add_segments(...) by a task that finds the lock free:
\* asyncio.Lock.acquire returns at once and the section has no await, so the
\* call runs from "async with" to its return as one step
AddSegmentsCall ==
    /\ ~locked
    /\ \E session_id \in SessionIds, segments \in Batches :
        LET r == SessionStore_add_segments(sessions, session_id, segments)
        IN /\ TotalHeld(r.sessions, DOMAIN r.sessions) <= MaxHeld
           /\ sessions' = r.sessions
           /\ last' = Call("add_segments", Some(session_id), r.ret, TRUE)
    /\ UNCHANGED <<locked, pc, ref, handlers>>

GetInsightsEndpoint ==
    /\ ~locked
    /\ \E session_id \in SessionIds, type \in TypeQueries,
          min_confidence \in MinConfidenceQueries :
        LET r == api_get_insights(sessions, session_id, type, min_confidence)
        IN /\ sessions' = r.sessions
           /\ last' = Request("api_get_insights", Some(session_id),
                              [type |-> type, min_confidence |-> min_confidence], r.ret)
    /\ UNCHANGED <<locked, pc, ref, handlers>>

\* GET /omi/sessions/{session_id}/insights: the cached SessionInsights, or
\* the analysis run now when there is none, returned whole
get_session_insights(ss, session_id) ==
    IF SessionStore_get_session(ss, session_id).ret = None
    THEN [sessions |-> ss, ret |-> HttpResponse(404, None)]
    ELSE LET cached == SessionStore_get_insights(ss, session_id)
             r == IF cached.ret = None
                  THEN SessionStore_run_analysis(cached.sessions, session_id)
                  ELSE cached
         IN [sessions |-> r.sessions, ret |-> HttpResponse(200, r.ret)]

GetSessionInsightsEndpoint ==
    /\ ~locked
    /\ \E session_id \in SessionIds :
        LET r == get_session_insights(sessions, session_id)
        IN /\ sessions' = r.sessions
           /\ last' = Request("get_session_insights", Some(session_id),
                              [type |-> None, min_confidence |-> 0], r.ret)
    /\ UNCHANGED <<locked, pc, ref, handlers>>

ApiNext ==
    \/ AddSegmentsCall
    \/ GetInsightsEndpoint
    \/ GetSessionInsightsEndpoint

\* The insights API over a store that receives segments.
ApiSpec == Init /\ [][ApiNext]_vars

\* ------------------------------------------------------------- webhook
\* X-Idempotency-Key headers of the modelled clients.  None is a request
\* without the header; an empty header value is falsy in receive_webhook and
\* takes the same path.
IdempotencyKeys == {None, Some("k1"), Some("k2")}

\* OmiWebhookPayload: session_id and a non-empty segment list.  The modelled
\* clients send one segment of a session, that segment and a second one, and one
\* segment of another session.
Payload(session_id, segments) == [session_id |-> session_id, segments |-> segments]
Payloads == {
    Payload("s1", <<Segment("too expensive", Some("SPEAKER_01"), FALSE, 1)>>),
    Payload("s1", <<Segment("too expensive", Some("SPEAKER_01"), FALSE, 1),
                    Segment("Send me a proposal", None, FALSE, 2)>>),
    Payload("s2", <<Segment("Send me a proposal", None, FALSE, 2)>>) }

WebhookResponse(session_id, segments_received) ==
    [status |-> "ok", session_id |-> session_id, segments_received |-> segments_received]

\* variant: the cache is written and never consulted
receive_webhook_no_replay(ss, cache, tasks, x_idempotency_key, payload) ==
    LET r == SessionStore_add_segments(ss, payload.session_id, payload.segments)
        response == WebhookResponse(payload.session_id, r.ret)
    IN [sessions |-> r.sessions,
        cache |-> IF x_idempotency_key # None
                  THEN [k \in DOMAIN cache \cup {x_idempotency_key[1]} |->
                           IF k = x_idempotency_key[1] THEN response ELSE cache[k]]
                  ELSE cache,
        tasks |-> Append(tasks, payload.session_id),
        ret |-> response]

\* variant: the analysis is scheduled only for a session the request created
receive_webhook_task_for_new_session(ss, cache, tasks, x_idempotency_key, payload) ==
    IF x_idempotency_key # None /\ x_idempotency_key[1] \in DOMAIN cache
    THEN [sessions |-> ss, cache |-> cache, tasks |-> tasks,
          ret |-> cache[x_idempotency_key[1]]]
    ELSE LET r == SessionStore_add_segments(ss, payload.session_id, payload.segments)
             response == WebhookResponse(payload.session_id, r.ret)
         IN [sessions |-> r.sessions,
             cache |-> IF x_idempotency_key # None
                       THEN [k \in DOMAIN cache \cup {x_idempotency_key[1]} |->
                                IF k = x_idempotency_key[1] THEN response ELSE cache[k]]
                       ELSE cache,
             tasks |-> IF payload.session_id \in DOMAIN ss
                       THEN tasks ELSE Append(tasks, payload.session_id),
             ret |-> response]

\* variant: segments_received is the size of the payload
receive_webhook_counts_payload(ss, cache, tasks, x_idempotency_key, payload) ==
    IF x_idempotency_key # None /\ x_idempotency_key[1] \in DOMAIN cache
    THEN [sessions |-> ss, cache |-> cache, tasks |-> tasks,
          ret |-> cache[x_idempotency_key[1]]]
    ELSE LET r == SessionStore_add_segments(ss, payload.session_id, payload.segments)
             response == WebhookResponse(payload.session_id, Len(payload.segments))
         IN [sessions |-> r.sessions,
             cache |-> IF x_idempotency_key # None
                       THEN [k \in DOMAIN cache \cup {x_idempotency_key[1]} |->
                                IF k = x_idempotency_key[1] THEN response ELSE cache[k]]
                       ELSE cache,
             tasks |-> Append(tasks, payload.session_id),
             ret |-> response]

\* POST /omi/webhook: the session map, the idempotency cache and the scheduled
\* tasks after the request, and the response
receive_webhook(ss, cache, tasks, x_idempotency_key, payload) ==
    IF x_idempotency_key # None /\ x_idempotency_key[1] \in DOMAIN cache
    THEN [sessions |-> ss, cache |-> cache, tasks |-> tasks,
          ret |-> cache[x_idempotency_key[1]]]
    ELSE LET r == SessionStore_add_segments(ss, payload.session_id, payload.segments)
             response == WebhookResponse(payload.session_id, r.ret)
         IN [sessions |-> r.sessions,
             cache |-> IF x_idempotency_key # None
                       THEN [k \in DOMAIN cache \cup {x_idempotency_key[1]} |->
                                IF k = x_idempotency_key[1] THEN response ELSE cache[k]]
                       ELSE cache,
             tasks |-> Append(tasks, payload.session_id),
             ret |-> response]

\* a request reaches the server: its handler is a task that has not run yet
Arrive(t) ==
    /\ pc[t] = "idle"
    /\ \E x_idempotency_key \in IdempotencyKeys :
        request' = [request EXCEPT ![t] = Some(x_idempotency_key)]
    /\ pc' = [pc EXCEPT ![t] = "webhook"]
    /\ UNCHANGED <<sessions, locked, ref, last, idempotency_cache, background>>

\* The handler runs.  Its one await, session_store.add_segments, finds the lock
\* free (no section of the store awaits while holding it), so asyncio.Lock
\* returns without suspending the task and the handler runs to its return
\* before the event loop schedules another task.
ReceiveWebhook(t) ==
    /\ pc[t] = "webhook"
    /\ ~locked
    /\ \E payload \in Payloads :
        LET r == receive_webhook(sessions, idempotency_cache, background,
                                 request[t][1], payload)
        IN /\ Len(r.tasks) <= MaxTasks
           /\ sessions' = r.sessions
           /\ idempotency_cache' = r.cache
           /\ background' = r.tasks
           /\ last' = Request("receive_webhook", Some(payload.session_id),
                              [x_idempotency_key |-> request[t][1]], r.ret)
    /\ pc' = [pc EXCEPT ![t] = "idle"]
    /\ request' = [request EXCEPT ![t] = None]
    /\ UNCHANGED <<locked, ref>>

\* _run_background_analysis, the oldest scheduled task
BackgroundAnalysis ==
    /\ background # <<>>
    /\ ~locked
    /\ LET r == SessionStore_run_analysis(sessions, Head(background))
       IN /\ sessions' = r.sessions
          /\ last' = Call("run_analysis", Some(Head(background)), r.ret, TRUE)
    /\ background' = Tail(background)
    /\ UNCHANGED <<locked, pc, ref, request, idempotency_cache>>

WebNext ==
    \/ \E t \in Tasks : Arrive(t) \/ ReceiveWebhook(t)
    \/ BackgroundAnalysis

\* The webhook endpoint and the analyses it schedules.
WebSpec == Init /\ [][WebNext]_vars

\* ------------------------------------------------------------- data operations
\* One session, filled by one add_segments call on the empty store (which
\* stores the whole batch), and the operations of SessionData applied to it.
FirstBatch ==
    /\ sessions = <<>>
    /\ ~locked
    /\ \E segments \in DataBatches :
        LET r == SessionStore_add_segments(sessions, "s1", segments)
        IN /\ sessions' = r.sessions
           /\ last' = Call("add_segments", Some("s1"), r.ret, TRUE)
    /\ UNCHANGED <<locked, pc, ref, handlers>>

OrderedSegments ==
    /\ "s1" \in DOMAIN sessions
    /\ last' = Call("ordered_segments", Some("s1"), ordered_segments(sessions["s1"]), TRUE)
    /\ UNCHANGED <<sessions, locked, pc, ref, handlers>>

GetSpeakerStats ==
    /\ "s1" \in DOMAIN sessions
    /\ last' = Call("get_speaker_stats", Some("s1"), get_speaker_stats(sessions["s1"]), FALSE)
    /\ UNCHANGED <<sessions, locked, pc, ref, handlers>>

\* InsightEngine(window_size=0).analyze_segments on the session's list as it
\* is stored; the lists in timestamp order, which are what run_analysis passes,
\* are among the stored lists
AnalyzeSegments ==
    /\ "s1" \in DOMAIN sessions
    /\ last' = Call("analyze_segments", Some("s1"),
                    analyze_segments(sessions["s1"].segments, "s1", WindowSize), TRUE)
    /\ UNCHANGED <<sessions, locked, pc, ref, handlers>>

\* the window sizes an InsightEngine is constructed with
WindowSizes == {0, 1, 2}

\* InsightEngine(window_size=k).analyze_segments on the session's list
AnalyzeWindow ==
    /\ "s1" \in DOMAIN sessions
    /\ \E window_size \in WindowSizes :
        last' = Request("analyze_segments_window", Some("s1"),
                        [window_size |-> window_size],
                        analyze_segments(sessions["s1"].segments, "s1", window_size))
    /\ UNCHANGED <<sessions, locked, pc, ref, handlers>>

GetSummary ==
    /\ "s1" \in DOMAIN sessions
    /\ last' = Call("get_summary", Some("s1"), get_summary(sessions["s1"]), FALSE)
    /\ UNCHANGED <<sessions, locked, pc, ref, handlers>>

GetFormattedTranscript ==
    /\ "s1" \in DOMAIN sessions
    /\ last' = Call("get_formatted_transcript", Some("s1"),
                    get_formatted_transcript(sessions["s1"]), FALSE)
    /\ UNCHANGED <<sessions, locked, pc, ref, handlers>>

\* await session_store.run_analysis("s1") by a task that finds the lock free
RunAnalysisCall ==
    /\ "s1" \in DOMAIN sessions
    /\ ~locked
    /\ LET r == SessionStore_run_analysis(sessions, "s1")
       IN /\ sessions' = r.sessions
          /\ last' = Call("run_analysis", Some("s1"), r.ret, TRUE)
    /\ UNCHANGED <<locked, pc, ref, handlers>>

DataNext ==
    \/ GetSummary
    \/ GetFormattedTranscript
    \/ FirstBatch
    \/ OrderedSegments
    \/ GetSpeakerStats
    \/ AnalyzeSegments

DataSpec == Init /\ [][DataNext]_vars

AnalysisNext ==
    \/ FirstBatch
    \/ RunAnalysisCall
    \/ AnalyzeWindow

\* One session filled by one add_segments call, run_analysis on it, and
\* engines of other window sizes applied to its list.
AnalysisSpec == Init /\ [][AnalysisNext]_vars

\* await session_store.add_segments("s1", ...) on the session once it exists,
\* by a task that finds the lock free; these later requests bring one segment
NextBatch ==
    /\ "s1" \in DOMAIN sessions
    /\ ~locked
    /\ \E segment \in DataFragments :
        LET r == SessionStore_add_segments(sessions, "s1", <<segment>>)
        IN /\ Len(r.sessions["s1"].segments) <= MaxData
           /\ sessions' = r.sessions
           /\ last' = Call("add_segments", Some("s1"), r.ret, TRUE)
    /\ UNCHANGED <<locked, pc, ref, handlers>>

GrowNext ==
    \/ FirstBatch
    \/ NextBatch
    \/ RunAnalysisCall

\* One session that receives batch after batch, and run_analysis on it.
GrowSpec == Init /\ [][GrowNext]_vars

\* ------------------------------------------------------------- properties
Held(sid) == IF sid \in DOMAIN sessions THEN sessions[sid].segments ELSE <<>>
HeldCount(sid) == IF sid \in DOMAIN sessions THEN sessions[sid].segment_count ELSE 0
SameKey(a, b) == a.timestamp = b.timestamp /\ a.text = b.text

\* a step in which task t leaves "async with self._lock" and its method returns
Returns(t) == pc[t] = "cs" /\ pc'[t] # "cs"

\* C1: no two segments stored in one session have both the same timestamp and
\* the same text, whatever batches add_segments was given.
C1_NoTwoStoredWithSameKey ==
    \A sid \in DOMAIN sessions :
        \A i, j \in 1..Len(sessions[sid].segments) :
            i # j => ~SameKey(sessions[sid].segments[i], sessions[sid].segments[j])

\* a task holds the lock and the store is as Init or an add_segments call left
\* it: every store state is such a state, since re-sending a held segment is an
\* add_segments call that changes nothing
NextCallerAfterIngest == locked /\ last.name \in {"none", "add_segments"}

\* C2: for the store as any calls left it, every session id and every batch L,
\* add_segments(id, L) called twice in a row returns 0 the second time, and the
\* second call leaves every session (segments, segment_count) as the first left it.
C2_IngestTwiceIsIdempotent ==
    NextCallerAfterIngest =>
        \A sid \in SessionIds, L \in WideBatches :
            LET first == SessionStore_add_segments(sessions, sid, L)
                second == SessionStore_add_segments(first.sessions, sid, L)
            IN /\ second.ret = 0
               /\ second.sessions = first.sessions

\* an add_segments call on a session holding segments has returned 0
C2_Witness ==
    /\ last.name = "add_segments"
    /\ last.ret = 0
    /\ HeldCount(last.sid[1]) >= 1

\* the indices of batch L whose (timestamp, text) no held segment of sid has
NewIndices(sid, L) ==
    {n \in 1..Len(L) : \A m \in 1..Len(Held(sid)) : ~SameKey(Held(sid)[m], L[n])}

\* C3: for the store as any calls left it, every session id and batch L,
\* add_segments keeps the held segments as they are and appends after them, in
\* their order in L, exactly the segments of L whose (timestamp, text) was not
\* held before the call; it returns their number and raises segment_count by it.
C3_AppendsExactlyTheNewKeys ==
    NextCallerAfterIngest =>
        \A sid \in SessionIds, L \in WideBatches :
            LET r == SessionStore_add_segments(sessions, sid, L)
                after == r.sessions[sid].segments
                old == Len(Held(sid))
                new == NewIndices(sid, L)
            IN /\ Len(after) = old + Cardinality(new)
               /\ SubSeq(after, 1, old) = Held(sid)
               /\ \A n \in new :
                     after[old + Cardinality({m \in new : m <= n})] = L[n]
               /\ r.ret = Cardinality(new)
               /\ r.sessions[sid].segment_count = HeldCount(sid) + Cardinality(new)

\* an add_segments call has appended one segment after a held one with the
\* same text and another timestamp
C3_Witness ==
    /\ last.name = "add_segments"
    /\ last.ret = 1
    /\ Len(Held(last.sid[1])) = 2
    /\ Held(last.sid[1])[1].text = Held(last.sid[1])[2].text
    /\ Held(last.sid[1])[1].timestamp # Held(last.sid[1])[2].timestamp

\* C4: in every state, and in every snapshot a task has read outside the
\* lock, segment_count is the number of segments of the session.
C4_CountIsNumberOfSegments ==
    /\ \A sid \in DOMAIN sessions :
          sessions[sid].segment_count = Len(sessions[sid].segments)
    /\ last.name = "to_dict" => last.ret.segment_count = Len(last.ret.segments)

\* a task has read, outside the lock, the snapshot of a session holding two
\* segments or more
C4_Witness ==
    /\ last.name = "to_dict"
    /\ last.ret.segment_count >= 2

\* C5: at most one task is inside "async with self._lock", and the lock is
\* held exactly while some task is inside: every return, the not-found ones
\* included, has released it.
C5_MutualExclusion ==
    /\ Cardinality({t \in Tasks : pc[t] = "cs"}) <= 1
    /\ locked <=> \E t \in Tasks : pc[t] = "cs"

\* a task is inside the lock after a run_analysis that found no session returned
C5_Witness ==
    /\ \E t \in Tasks : pc[t] = "cs"
    /\ last.name = "run_analysis"
    /\ last.ret = None

\* C6: every read or write of a session's segments or cached insights is made
\* by a task that holds the lock at that moment, the reads of the adapters
\* that got the SessionData from get_session included.
C6_AccessOnlyUnderLock == last.held

\* C7: run_analysis on an existing session returns analyze_segments of the
\* session's ordered segments as they are when the method runs under the lock,
\* and on return latest_insights is that returned value.
C7_RunAnalysisReturnsAndCaches ==
    [][\A t \in Tasks :
          (Returns(t) /\ last'.name = "run_analysis"
                      /\ last'.sid[1] \in DOMAIN sessions) =>
              LET sid == last'.sid[1]
              IN /\ last'.ret = Some(analyze_segments(ordered_segments(sessions[sid]),
                                                      sid, WindowSize))
                 /\ sessions'[sid].latest_insights = last'.ret
                 /\ sessions'[sid].segments = sessions[sid].segments]_vars

\* run_analysis has returned two insights for a session whose segments are
\* stored out of timestamp order
C7_Witness ==
    /\ last.name = "run_analysis"
    /\ last.ret # None
    /\ last.ret[1].total_insights = 2
    /\ Len(Held(last.sid[1])) = 2
    /\ Held(last.sid[1])[1].timestamp > Held(last.sid[1])[2].timestamp

\* C8: get_session, run_analysis and get_insights on a session id that is not
\* in the store return None and leave the session map and every session as
\* they were.
C8_NotFoundReturnsNoneAndChangesNothing ==
    [][\A t \in Tasks :
          (Returns(t) /\ last'.name \in {"get_session", "run_analysis", "get_insights"}
                      /\ last'.sid[1] \notin DOMAIN sessions) =>
              /\ last'.ret = None
              /\ sessions' = sessions
              /\ pc'[t] = "idle"]_vars

\* one of the three has returned None for an unknown id while the store holds
\* another session
C8_Witness ==
    /\ last.name \in {"get_session", "run_analysis", "get_insights"}
    /\ last.ret = None
    /\ last.sid[1] \notin DOMAIN sessions
    /\ DOMAIN sessions # {}

\* C9: latest_insights of a session changes only in a run_analysis on that
\* session; add_segments leaves it as it was, None for a session it creates,
\* whether or not it appended segments.
C9_OnlyRunAnalysisChangesInsights ==
    [][/\ \A sid \in DOMAIN sessions :
             sessions'[sid].latest_insights # sessions[sid].latest_insights =>
                 last'.name = "run_analysis" /\ last'.sid = Some(sid)
       /\ \A sid \in DOMAIN sessions' \ DOMAIN sessions :
             sessions'[sid].latest_insights = None]_vars

\* add_segments has appended to a session whose cached insights are no longer
\* those of its segments
C9_Witness ==
    /\ last.name = "add_segments"
    /\ last.ret >= 1
    /\ sessions[last.sid[1]].latest_insights # None
    /\ sessions[last.sid[1]].latest_insights #
           Some(analyze_segments(ordered_segments(sessions[last.sid[1]]),
                                 last.sid[1], WindowSize))

IsPrefix(a, b) == Len(a) <= Len(b) /\ SubSeq(b, 1, Len(a)) = a

\* C10: add_segments on an id that is not in the store adds that id and no
\* other to it, so that list_sessions has it and active_sessions is one more;
\* on an id in the store it leaves the set of ids and active_sessions as they
\* were and keeps the session: its segments stay a prefix, its insights stay.
C10_FirstWriteCreates ==
    [][\A t \in Tasks :
          (Returns(t) /\ last'.name = "add_segments") =>
              LET sid == last'.sid[1]
                  active == SessionStore_get_stats(sessions).active_sessions
                  active_after == SessionStore_get_stats(sessions').active_sessions
              IN /\ SessionStore_list_sessions(sessions') =
                        SessionStore_list_sessions(sessions) \cup {sid}
                 /\ \A other \in DOMAIN sessions \ {sid} : sessions'[other] = sessions[other]
                 /\ IF sid \notin DOMAIN sessions
                    THEN active_after = active + 1
                    ELSE /\ active_after = active
                         /\ IsPrefix(sessions[sid].segments, sessions'[sid].segments)
                         /\ sessions'[sid].latest_insights = sessions[sid].latest_insights
                         /\ sessions'[sid].session_id = sessions[sid].session_id]_vars

\* add_segments has created a second session: all it holds came with this call
C10_Witness ==
    /\ last.name = "add_segments"
    /\ last.ret >= 1
    /\ sessions[last.sid[1]].segment_count = last.ret
    /\ SessionStore_get_stats(sessions).active_sessions = 2

\* the elements of s at the indices idx, in the order of s
RECURSIVE SubAt(_, _)
SubAt(s, idx) ==
    IF s = <<>> THEN <<>>
    ELSE LET rest == SubAt(SubSeq(s, 1, Len(s) - 1), idx)
         IN IF Len(s) \in idx THEN Append(rest, s[Len(s)]) ELSE rest

CountOfType(insights, c) == Cardinality({n \in 1..Len(insights) : insights[n].type = c})

\* C11: a request for the insights of an existing session answers with exactly
\* the findings of the session's Finding-Set (the cached one, or the one the
\* request computed and cached) that have the requested category (if one is
\* requested) and a confidence of at least min_confidence, in their original
\* order, and with total_insights and the per-category summary counted over
\* these findings.
C11_FilteredFindings ==
    (last.name = "api_get_insights" /\ last.sid[1] \in DOMAIN sessions) =>
        LET sid == last.sid[1]
            args == last.args
            from == sessions[sid].latest_insights[1].insights
            Keep(i) == /\ (args.type # None => i.type = args.type[1])
                       /\ i.confidence >= args.min_confidence
            body == last.ret.body[1]
        IN /\ last.ret.status = 200
           /\ sessions[sid].latest_insights # None
           /\ body.session_id = sid
           /\ body.insights = SubAt(from, {n \in 1..Len(from) : Keep(from[n])})
           /\ body.total_insights = Len(body.insights)
           /\ DOMAIN body.summary = {c \in InsightTypes : CountOfType(body.insights, c) > 0}
           /\ \A c \in DOMAIN body.summary : body.summary[c] = CountOfType(body.insights, c)

\* min_confidence 0.92 on a Finding-Set of a pricing objection (0.9) and a buying
\* signal (0.95) has returned the buying signal alone, summary {buying_signal: 1}
C11_Witness ==
    /\ last.name = "api_get_insights"
    /\ last.ret.status = 200
    /\ last.args.min_confidence = 92
    /\ sessions[last.sid[1]].latest_insights[1].total_insights = 2
    /\ last.ret.body[1].total_insights = 1
    /\ last.ret.body[1].summary = [c \in {"buying_signal"} |-> 1]

\* C12: once run_analysis has returned a Finding-Set for a session, running it
\* again before any other call returns an equal Finding-Set and leaves the
\* store, the cached Finding-Set included, as the first run left it.
C12_RunAnalysisIdempotent ==
    (last.name = "run_analysis" /\ last.ret # None) =>
        LET again == SessionStore_run_analysis(sessions, last.sid[1])
        IN /\ again.ret = last.ret
           /\ again.sessions = sessions
           /\ again.sessions[last.sid[1]].latest_insights = last.ret

\* run_analysis has returned two findings, and the next caller holds the lock
C12_Witness ==
    /\ last.name = "run_analysis"
    /\ last.ret # None
    /\ last.ret[1].total_insights = 2
    /\ locked

\* the one-to-one maps of 1..n onto itself
Bijections(n) == {f \in [1..n -> 1..n] : \A i, j \in 1..n : f[i] = f[j] => i = j}

\* C13: ordered_segments returns the held segments rearranged (each as often
\* as it is held), non-decreasing in timestamp, and segments of equal timestamp
\* in the order in which they are stored.
C13_OrderedIsStableSortedPermutation ==
    last.name = "ordered_segments" =>
        LET held == sessions[last.sid[1]].segments
            out == last.ret
        IN /\ Len(out) = Len(held)
           /\ \A k \in 1..(Len(out) - 1) : out[k].timestamp <= out[k + 1].timestamp
           /\ \E f \in Bijections(Len(held)) :
                /\ \A k \in 1..Len(out) : out[k] = held[f[k]]
                /\ \A k, l \in 1..Len(out) :
                     (k < l /\ out[k].timestamp = out[l].timestamp) => f[k] < f[l]

\* three segments stored latest first, two of them with one timestamp and
\* different texts, have been put in order
C13_Witness ==
    /\ last.name = "ordered_segments"
    /\ Len(last.ret) = 3
    /\ last.ret # sessions["s1"].segments
    /\ last.ret[1].timestamp = 1
    /\ last.ret[2].timestamp = 2 /\ last.ret[3].timestamp = 2
    /\ last.ret[2].text # last.ret[3].text
    /\ sessions["s1"].segments[3].timestamp = 1

\* C14: when the handler of a webhook request with an idempotency key returns,
\* the cache holds the response it returned under that key, and no entry of the
\* cache ever changes; if the cache held a response under the key when the
\* handler ran, that response is returned, no session changes and no analysis
\* is scheduled.  In particular a request that completes right after one with
\* the same key, whichever arrived first, returns the same response.
C14_KeyReplay ==
    [][\A t \in Tasks :
        (pc[t] = "webhook" /\ pc'[t] = "idle" /\ request[t][1] # None) =>
            LET k == request[t][1][1]
            IN /\ k \in DOMAIN idempotency_cache'
               /\ idempotency_cache'[k] = last'.ret
               /\ \A j \in DOMAIN idempotency_cache :
                    j \in DOMAIN idempotency_cache'
                    /\ idempotency_cache'[j] = idempotency_cache[j]
               /\ k \in DOMAIN idempotency_cache =>
                    /\ last'.ret = idempotency_cache[k]
                    /\ sessions' = sessions
                    /\ background' = background
                    /\ idempotency_cache' = idempotency_cache
               /\ (last.name = "receive_webhook"
                   /\ last.args.x_idempotency_key = request[t][1]) =>
                    last'.ret = last.ret
      ]_vars

\* a request for session s2 with key k1 has been answered with the response
\* produced for s1 under k1 and has created no session s2, while a second
\* request with key k1 is in flight
C14_Witness ==
    /\ last.name = "receive_webhook"
    /\ last.args.x_idempotency_key = Some("k1")
    /\ last.sid = Some("s2")
    /\ last.ret.session_id = "s1"
    /\ "s2" \notin DOMAIN sessions
    /\ background = <<>>
    /\ \E t \in Tasks : pc[t] = "webhook" /\ request[t] = Some(Some("k1"))

\* the words of a text, counted one character at a time
RECURSIVE WordsIn(_)
WordsIn(text) ==
    IF text = <<>> THEN 0
    ELSE WordsIn(SubSeq(text, 1, Len(text) - 1)) +
         (IF text[Len(text)] # " " /\ (Len(text) = 1 \/ text[Len(text) - 1] = " ")
          THEN 1 ELSE 0)

RECURSIVE TotalWords(_)
TotalWords(segments) ==
    IF segments = <<>> THEN 0
    ELSE TotalWords(Tail(segments)) + WordsIn(Chars(Head(segments).text))

RECURSIVE SumOfRatios(_)
SumOfRatios(stats) ==
    IF stats = <<>> THEN 0 ELSE SumOfRatios(Tail(stats)) + Head(stats).talk_ratio

\* C16: when the held segments have at least one word, the talk ratios of
\* get_speaker_stats add up to 100 give or take 0.05 for each speaker
\* (in tenths: twice the distance of the sum from 1000 is at most the number
\* of speakers).
C16_TalkRatiosSumTo100 ==
    (last.name = "get_speaker_stats" /\ TotalWords(sessions[last.sid[1]].segments) > 0) =>
        LET sum == SumOfRatios(last.ret)
            off == IF sum >= 1000 THEN sum - 1000 ELSE 1000 - sum
        IN 2 * off <= Len(last.ret)

\* three speakers with 1, 4 and 4 of 9 words: 11.1 + 44.4 + 44.4 = 99.9
C16_Witness ==
    /\ last.name = "get_speaker_stats"
    /\ Len(last.ret) = 3
    /\ TotalWords(sessions["s1"].segments) = 9
    /\ SumOfRatios(last.ret) = 999

\* C17: a call on the store for one session leaves every other session as it
\* was (its segments, its segment_count, its cached Finding-Set, and whether
\* it exists), and each session and each cached Finding-Set carries the id of
\* the session that holds it.
C17_SessionIsolation ==
    [][\A t \in Tasks : Returns(t) =>
        /\ \A B \in SessionIds :
             last'.sid # Some(B) =>
                /\ (B \in DOMAIN sessions') = (B \in DOMAIN sessions)
                /\ B \in DOMAIN sessions =>
                     /\ sessions'[B].segments = sessions[B].segments
                     /\ sessions'[B].segment_count = sessions[B].segment_count
                     /\ sessions'[B].latest_insights = sessions[B].latest_insights
        /\ \A B \in DOMAIN sessions' :
             /\ sessions'[B].session_id = B
             /\ sessions'[B].latest_insights # None =>
                  sessions'[B].latest_insights[1].session_id = B
      ]_vars

\* add_segments has stored a segment in s2 while s1 holds another segment and
\* a cached Finding-Set
C17_Witness ==
    /\ last.name = "add_segments"
    /\ last.sid = Some("s2")
    /\ last.ret = 1
    /\ DOMAIN sessions = {"s1", "s2"}
    /\ sessions["s1"].latest_insights # None
    /\ sessions["s1"].segment_count = 1
    /\ sessions["s1"].segments # sessions["s2"].segments

\* The segments analyze_segments has scanned when last is its call, and the
\* matches among them: pairs of a position in the list and a position in the
\* catalog such that the phrase occurs in the lowercased text.
Scanned == sessions[last.sid[1]].segments
Matches ==
    {m \in (1..Len(Scanned)) \X (1..Len(Rules)) :
        Contains(lower(Scanned[m[1]].text), Rules[m[2]].phrase)}
MatchKey(m) == <<Rules[m[2]].type, Rules[m[2]].phrase, Scanned[m[1]].timestamp>>
FindingKey(x) == <<x.type, x.matched_phrase, x.timestamp[1]>>

\* C18: no two findings of one analysis have the same (type, phrase,
\* timestamp), and every (type, phrase, timestamp) of a match has its finding:
\* the same phrase at two timestamps gives two findings, and so do two phrases
\* in one segment.
C18_OneFindingPerKey ==
    last.name = "analyze_segments" =>
        LET found == last.ret.insights
        IN /\ \A k, l \in 1..Len(found) :
                FindingKey(found[k]) = FindingKey(found[l]) => k = l
           /\ {FindingKey(found[k]) : k \in 1..Len(found)} = {MatchKey(m) : m \in Matches}

\* "too expensive" at timestamp 2 in two texts and at timestamp 1, there with
\* two more phrases in the segment: five matches, four keys, four findings
C18_Witness ==
    /\ last.name = "analyze_segments"
    /\ Cardinality(Matches) = 5
    /\ last.ret.total_insights = 4
    /\ \E m, n \in Matches : m # n /\ MatchKey(m) = MatchKey(n)
                             /\ Scanned[m[1]].text # Scanned[n[1]].text
    /\ \E m, n \in Matches : m[1] = n[1] /\ m[2] # n[2]
    /\ \E m, n \in Matches : Rules[m[2]].phrase = Rules[n[2]].phrase
                             /\ Scanned[m[1]].timestamp # Scanned[n[1]].timestamp

\* the finding a match is to give, field by field
Expected(m) ==
    [type |-> Rules[m[2]].type,
     confidence |-> Rules[m[2]].confidence,
     matched_text |-> Scanned[m[1]].text,
     matched_phrase |-> Rules[m[2]].phrase,
     speaker |-> Scanned[m[1]].speaker,
     timestamp |-> Some(Scanned[m[1]].timestamp),
     suggestion |-> Rules[m[2]].suggestion]

\* m is the first match of its key in scanning order (segments, then rules)
FirstOfKey(m) ==
    \A n \in Matches :
        MatchKey(n) = MatchKey(m) => (n[1] > m[1] \/ (n[1] = m[1] /\ n[2] >= m[2]))

\* C19: every finding is the expected finding of a match (the rule's phrase
\* occurs in the lowercased text of the segment); the first match of each key
\* has exactly one finding with that key, which takes type, confidence,
\* suggestion and phrase from the rule and text, speaker and timestamp from the
\* segment; there are no other findings, and none for a segment without match.
C19_FindingsAreFirstMatches ==
    last.name = "analyze_segments" =>
        LET found == last.ret.insights
        IN /\ \A k \in 1..Len(found) : \E m \in Matches : found[k] = Expected(m)
           /\ \A m \in Matches : FirstOfKey(m) =>
                /\ Cardinality({k \in 1..Len(found) : FindingKey(found[k]) = MatchKey(m)}) = 1
                /\ \A k \in 1..Len(found) :
                     FindingKey(found[k]) = MatchKey(m) => found[k] = Expected(m)
           /\ Len(found) = Cardinality({m \in Matches : FirstOfKey(m)})
           /\ \A i \in 1..Len(Scanned) :
                (\A m \in Matches : m[1] # i) =>
                    \A k \in 1..Len(found) : found[k].matched_text # Scanned[i].text

\* "It is too expensive" scanned before "too expensive" of the same timestamp,
\* and "Send me a proposal": the one finding of the shared key quotes the
\* first text, and the capitalised text is matched by the lowercase phrase
C19_Witness ==
    /\ last.name = "analyze_segments"
    /\ Len(Scanned) = 3
    /\ Scanned[1].text = "It is too expensive"
    /\ Scanned[2].text = "too expensive" /\ Scanned[2].timestamp = Scanned[1].timestamp
    /\ last.ret.total_insights = 2
    /\ \E k \in 1..2 : /\ last.ret.insights[k].matched_text = "It is too expensive"
                       /\ last.ret.insights[k].speaker = Some("SPEAKER_02")
    /\ \E k \in 1..2 : /\ last.ret.insights[k].matched_text = "Send me a proposal"
                       /\ last.ret.insights[k].matched_phrase = "send me a proposal"

\* C20: the findings of an analysis are in ascending order of timestamp (0 for
\* a finding without one), and findings of equal timestamp in descending order
\* of confidence.
C20_FindingsSorted ==
    last.name = "analyze_segments" =>
        LET found == last.ret.insights
            Time(x) == IF x.timestamp = None THEN 0 ELSE x.timestamp[1]
        IN \A k \in 1..(Len(found) - 1) :
            \/ Time(found[k]) < Time(found[k + 1])
            \/ /\ Time(found[k]) = Time(found[k + 1])
               /\ found[k].confidence >= found[k + 1].confidence

\* scanned: 0.9 and 0.95 at timestamp 2, then 0.9, 0.95 and 0.9 at timestamp 1;
\* returned: timestamp 1 first, and 0.95 first at each timestamp
C20_Witness ==
    /\ last.name = "analyze_segments"
    /\ Len(Scanned) = 3
    /\ Scanned[1].text = "too expensive" /\ Scanned[1].timestamp = 2
    /\ Scanned[2].text = "Send me a proposal"
    /\ Scanned[3].timestamp = 1
    /\ last.ret.total_insights = 5
    /\ last.ret.insights[1].timestamp = Some(1) /\ last.ret.insights[1].confidence = 95
    /\ last.ret.insights[3].timestamp = Some(1) /\ last.ret.insights[3].confidence = 90
    /\ last.ret.insights[4].timestamp = Some(2) /\ last.ret.insights[4].confidence = 95
    /\ last.ret.insights[5].confidence = 90

\* the positions of the list that an engine of the called window size scans
InWindow ==
    LET k == last.args.window_size
        n == Len(Scanned)
    IN IF k > 0 /\ n > k THEN (n - k + 1)..n ELSE 1..n

\* C21: an engine with window_size k > 0 given more than k segments scans the
\* last k of the list and nothing else, and an engine with window_size 0, or
\* given at most k segments, scans them all: every finding is the expected
\* finding of a match at a scanned position, and the keys found are the keys
\* of the matches at scanned positions.
C21_WindowScansLastK ==
    last.name = "analyze_segments_window" =>
        LET found == last.ret.insights
            scanned == {m \in Matches : m[1] \in InWindow}
        IN /\ \A k \in 1..Len(found) : \E m \in scanned : found[k] = Expected(m)
           /\ {FindingKey(found[k]) : k \in 1..Len(found)} = {MatchKey(m) : m \in scanned}
           /\ last.ret.total_insights = Len(found)

\* window_size 1 on three segments in timestamp order, each with a phrase:
\* the one finding is that of the last segment
C21_Witness ==
    /\ last.name = "analyze_segments_window"
    /\ last.args.window_size = 1
    /\ Len(Scanned) = 3
    /\ Scanned[1].timestamp = 1 /\ Scanned[2].timestamp = 2 /\ Scanned[3].timestamp = 2
    /\ \A i \in 1..3 : \E m \in Matches : m[1] = i
    /\ Scanned[3].text = "Send me a proposal"
    /\ last.ret.total_insights = 1
    /\ last.ret.insights[1].matched_text = "Send me a proposal"

RECURSIVE SumOfCounts(_, _)
SumOfCounts(summary, types) ==
    IF types = {} THEN 0
    ELSE LET c == CHOOSE x \in types : TRUE
         IN summary[c] + SumOfCounts(summary, types \ {c})

Consistent(fs) ==
    /\ fs.total_insights = Len(fs.insights)
    /\ DOMAIN fs.summary = {c \in InsightTypes : CountOfType(fs.insights, c) > 0}
    /\ \A c \in DOMAIN fs.summary : fs.summary[c] = CountOfType(fs.insights, c)
    /\ SumOfCounts(fs.summary, DOMAIN fs.summary) = fs.total_insights

\* C22: in every Finding-Set cached on a session or returned by run_analysis,
\* total_insights is the number of findings, the summary has an entry exactly
\* for the categories that have findings, each entry is the number of findings
\* of its category, and the entries add up to total_insights.
C22_FindingSetConsistent ==
    /\ \A sid \in DOMAIN sessions :
         sessions[sid].latest_insights # None => Consistent(sessions[sid].latest_insights[1])
    /\ (last.name = "run_analysis" /\ last.ret # None) => Consistent(last.ret[1])

\* run_analysis has returned a pricing objection and a buying signal, now cached
C22_Witness ==
    /\ last.name = "run_analysis"
    /\ last.ret # None
    /\ last.ret[1].total_insights = 2
    /\ DOMAIN last.ret[1].summary = {"pricing_objection", "buying_signal"}
    /\ sessions[last.sid[1]].latest_insights = last.ret

\* C23: get_summary reports no duration exactly when fewer than two segments
\* are held; otherwise the duration is the largest held timestamp minus the
\* smallest, which is not negative.
C23_SummaryDuration ==
    last.name = "get_summary" =>
        LET held == sessions[last.sid[1]].segments
            times == {held[n].timestamp : n \in 1..Len(held)}
            d == last.ret.duration_seconds
        IN /\ (d = None) = (Len(held) < 2)
           /\ Len(held) >= 2 =>
                /\ \E hi, lo \in times :
                     /\ \A x \in times : lo <= x /\ x <= hi
                     /\ d[1] = hi - lo
                /\ d[1] >= 0

\* three segments stored with timestamps 2, 3, 1: the duration is 2
C23_Witness ==
    /\ last.name = "get_summary"
    /\ Len(sessions["s1"].segments) = 3
    /\ sessions["s1"].segments[1].timestamp = 2
    /\ sessions["s1"].segments[2].timestamp = 3
    /\ sessions["s1"].segments[3].timestamp = 1
    /\ last.ret.duration_seconds = Some(2)

\* the speaker of a segment is absent, empty or made of spaces only
Blank(speaker) ==
    \/ speaker = None
    \/ \A i \in 1..Len(Chars(speaker[1])) : Chars(speaker[1])[i] = " "

\* C24: get_speaker_stats and get_formatted_transcript never give an empty
\* speaker label, and attribute every segment whose speaker is absent, empty
\* or whitespace to "UNKNOWN": the UNKNOWN entry of the statistics counts these
\* segments, and their transcript lines are labelled UNKNOWN.
C24_BlankSpeakerIsUnknown ==
    LET held == sessions[last.sid[1]].segments
        blank == {n \in 1..Len(held) : Blank(held[n].speaker)}
    IN /\ last.name = "get_speaker_stats" =>
            /\ \A k \in 1..Len(last.ret) : last.ret[k].speaker # <<>>
            /\ blank # {} =>
                 \E k \in 1..Len(last.ret) :
                     /\ last.ret[k].speaker = Chars("UNKNOWN")
                     /\ last.ret[k].segment_count = Cardinality(blank)
       /\ last.name = "get_formatted_transcript" =>
            \A k \in 1..Len(last.ret.lines) :
                /\ last.ret.lines[k].speaker # <<>>
                /\ \A n \in blank :
                     (held[n].text = last.ret.lines[k].text
                      /\ held[n].timestamp = last.ret.lines[k].timestamp)
                     => last.ret.lines[k].speaker = Chars("UNKNOWN")

\* C25: a task that waits for the lock gets it, and a task that holds it
\* leaves and releases it; some step is always possible; a waiting task can
\* enter whenever the lock is free, and a task inside can always finish.
C25_EveryCallCompletes ==
    /\ \A t \in Tasks : (pc[t] = "waiting") ~> (pc[t] = "cs")
    /\ \A t \in Tasks : (pc[t] = "cs") ~> (pc[t] # "cs" /\ ~locked)
    /\ [](ENABLED LiveNext)
    /\ [](\A t \in Tasks : (pc[t] = "waiting" /\ ~locked) => ENABLED Enter(t))
    /\ [](\A t \in Tasks : pc[t] = "cs" => ENABLED Section(t))

\* one task is inside a section while the other waits for the lock
C25_Witness ==
    /\ pc["t1"] = "cs"
    /\ pc["t2"] = "waiting"
    /\ locked
    /\ last.name = "add_segments"

\* no webhook handler is waiting to run and no scheduled analysis is pending
Quiet == (\A t \in Tasks : pc[t] = "idle") /\ background = <<>>

\* the cached Finding-Set of session_id is the analysis of what it holds now
Coherent(session_id) ==
    sessions[session_id].latest_insights =
        Some(analyze_segments(ordered_segments(sessions[session_id]), session_id, WindowSize))

\* C26: once every webhook request has returned and every analysis it
\* scheduled has run, each session's cached Finding-Set is the analysis of the
\* segments the session holds, in timestamp order.
C26_CoherentWhenQuiet ==
    Quiet => \A session_id \in DOMAIN sessions : Coherent(session_id)

\* both sessions hold segments, the first from two requests (it holds two
\* segments, and a request of these clients that creates it with two is the
\* last to add to it), and the last scheduled analysis has just run
C26_Witness ==
    /\ Quiet
    /\ last.name = "run_analysis"
    /\ DOMAIN sessions = {"s1", "s2"}
    /\ Len(sessions["s1"].segments) = 2
    /\ sessions["s1"].latest_insights # None
    /\ sessions["s1"].latest_insights[1].total_insights = 2

\* the number of segments session_id holds in the session map ss
HeldIn(ss, session_id) ==
    IF session_id \in DOMAIN ss THEN Len(ss[session_id].segments) ELSE 0

\* the handler of task t returns in this step
Responds(t) == pc[t] = "webhook" /\ pc'[t] = "idle"

\* the response of this step names the session of the request's payload and
\* counts the segments the step added to that session
OwnResponse ==
    /\ last'.ret.session_id = last'.sid[1]
    /\ last'.ret.segments_received = HeldIn(sessions', last'.sid[1]) - HeldIn(sessions, last'.sid[1])

\* the request of task t carries a key under which the cache holds a response
Replayed(t) == request[t][1] # None /\ request[t][1][1] \in DOMAIN idempotency_cache

\* C27 as stated: the response to every webhook request carries the session id
\* of the request's payload and the number of segments the request newly stored.
C27_EveryResponseIsOwn ==
    [][\A t \in Tasks : Responds(t) => OwnResponse]_vars

\* C27 amended: the response to every webhook request that is not answered
\* from the idempotency cache carries the session id of the request's payload
\* and the number of segments the request newly stored in that session.
C27_FreshResponseIsOwn ==
    [][\A t \in Tasks : (Responds(t) /\ ~Replayed(t)) => OwnResponse]_vars

\* a request without key whose payload of two segments for s1 held one that s1
\* already had has been answered with segments_received 1
C27_Witness ==
    /\ last.name = "receive_webhook"
    /\ last.args.x_idempotency_key = None
    /\ last.sid = Some("s1")
    /\ last.ret.session_id = "s1"
    /\ last.ret.segments_received = 1
    /\ Len(sessions["s1"].segments) = 2

\* this step is a request for the findings of a session the store holds
FindingsRequested ==
    /\ last'.name \in {"api_get_insights", "get_session_insights"}
    /\ last'.sid[1] \in DOMAIN sessions

\* the findings of a cached Finding-Set that a request with these query
\* values asks for
Asked(cached, args) ==
    SelectSeq(cached.insights,
              LAMBDA i : /\ args.type # None => i.type = args.type[1]
                         /\ i.confidence >= args.min_confidence)

\* C28: a request for the findings of an existing session is answered with
\* status 200; when the session has a cached Finding-Set the store is left
\* as it was (no analysis is run) and the findings returned are those of the
\* cached set, also when the session has received segments since; when it has
\* none, the analysis of the held segments is cached and nothing else changes.
C28_AnalysisOnlyWithoutCache ==
    [][FindingsRequested =>
        LET session_id == last'.sid[1]
            cached == sessions[session_id].latest_insights
        IN /\ last'.ret.status = 200
           /\ last'.ret.body # None
           /\ cached # None =>
                /\ sessions' = sessions
                /\ last'.ret.body[1].insights = Asked(cached[1], last'.args)
           /\ cached = None =>
                /\ sessions' = [sessions EXCEPT ![session_id].latest_insights =
                                  Some(analyze_segments(ordered_segments(sessions[session_id]),
                                                        session_id, WindowSize))]
                /\ last'.ret.body[1].insights = Asked(sessions'[session_id].latest_insights[1], last'.args)
      ]_vars

\* a request has been answered with the whole cached Finding-Set of s1, one
\* finding, while s1 holds two segments whose analysis gives two
C28_Witness ==
    /\ last.name = "get_session_insights"
    /\ last.sid = Some("s1")
    /\ last.ret.status = 200
    /\ last.ret.body = sessions["s1"].latest_insights
    /\ last.ret.body[1].total_insights = 1
    /\ analyze_segments(ordered_segments(sessions["s1"]), "s1", WindowSize).total_insights = 2

\* segment holds a phrase of the catalog
HasPhrase(segment) ==
    \E k \in 1..Len(Rules) : Contains(lower(segment.text), Rules[k].phrase)

\* found has a finding that takes text, speaker and timestamp from segment
IsSource(segment, found) ==
    \E k \in 1..Len(found) :
        /\ found[k].matched_text = segment.text
        /\ found[k].speaker = segment.speaker
        /\ found[k].timestamp = Some(segment.timestamp)

\* C29: after run_analysis on a session, every segment the session holds whose
\* text contains a phrase of the catalog is the source of a finding of the
\* result, two segments of one timestamp with the same phrase in different
\* texts included.
C29_EveryMatchingSegmentIsSource ==
    (last.name = "run_analysis" /\ last.ret # None) =>
        \A k \in 1..Len(Scanned) :
            HasPhrase(Scanned[k]) => IsSource(Scanned[k], last.ret[1].insights)

\* C30: no step of the store removes a session; the segment list a session
\* held before a step is a prefix of the list it holds after it (no segment
\* is removed, altered or moved); segment_count does not decrease.
C30_MonotonicGrowth ==
    [][\A session_id \in DOMAIN sessions :
        /\ session_id \in DOMAIN sessions'
        /\ IsPrefix(sessions[session_id].segments, sessions'[session_id].segments)
        /\ sessions'[session_id].segment_count >= sessions[session_id].segment_count
      ]_vars

\* a second add_segments call has put a segment after the one s1 held
C30_Witness ==
    /\ last.name = "add_segments"
    /\ last.sid = Some("s1")
    /\ last.ret = 1
    /\ Len(sessions["s1"].segments) = 2
    /\ sessions["s1"].segment_count = 2

\* finding x is in the list found
Among(x, found) == \E k \in 1..Len(found) : found[k] = x

\* C31: when run_analysis returns for a session that has a cached Finding-Set
\* (the result of the run_analysis before it on that session), the new result
\* has at least as many findings, and every finding of the cached one is in
\* it with all its fields.
C31_FindingsNeverLost ==
    [][(last'.name = "run_analysis" /\ sessions["s1"].latest_insights # None) =>
        LET earlier == sessions["s1"].latest_insights[1]
            later == last'.ret[1]
        IN /\ later.total_insights >= earlier.total_insights
           /\ Len(later.insights) >= Len(earlier.insights)
           /\ \A k \in 1..Len(earlier.insights) : Among(earlier.insights[k], later.insights)
      ]_vars

\* run_analysis has returned two findings for s1, which holds, in the order
\* they were stored, two segments of one timestamp with the same phrase in two
\* texts, and a segment with that phrase at an earlier timestamp
C31_Witness ==
    /\ last.name = "run_analysis"
    /\ Len(Scanned) = 3
    /\ last.ret[1].total_insights = 2
    /\ \E k, l \in 1..Len(Scanned) :
        /\ k < l
        /\ Scanned[k].timestamp = Scanned[l].timestamp
        /\ Scanned[k].text = "too expensive"
        /\ Scanned[l].text = "It is too expensive"
    /\ \E k \in 1..Len(Scanned) : Scanned[k].text = "too expensive" /\ Scanned[k].timestamp = 1
====
